---- MODULE Spec2Model ----
(***************************************************************************)
(* Model of split_cheat_db.py: the single pass that cuts a cheat database  *)
(* into `_S` blocks, groups them per output file name, drops repeated      *)
(* blocks and writes one .ini file per group.                              *)
(*                                                                         *)
(* Text is modelled as sequences of one-character strings, so a line is    *)
(* <<"_", "S", " ", "A", "\n">> and "".join is sequence concatenation.     *)
(***************************************************************************)
EXTENDS Integers, Sequences, FiniteSets, TLC

(***************************************************************************)
(* Bounds of the model.                                                    *)
(***************************************************************************)
\* longest input, in lines
MaxLines == 3
\* longest free-form marker line handed to sanitize_s_code_to_filename
MaxKeyLen == 5

(***************************************************************************)
(* Characters.                                                             *)
(***************************************************************************)
Upper == {"A", "B", "C", "D", "E", "F", "G", "H", "I", "J", "K", "L", "M",
          "N", "O", "P", "Q", "R", "S", "T", "U", "V", "W", "X", "Y", "Z"}
Lower == {"a", "b", "c", "d", "e", "f", "g", "h", "i", "j", "k", "l", "m",
          "n", "o", "p", "q", "r", "s", "t", "u", "v", "w", "x", "y", "z"}
DigitChars == <<"0", "1", "2", "3", "4", "5", "6", "7", "8", "9">>
Digit == {DigitChars[i] : i \in 1..10}

\* what str.strip(), str.lstrip() and str.split() treat as whitespace
Whitespace == {" ", "\t", "\n", "\r"}

\* the class [A-Za-z0-9._-] of the regular expression
SafeChars == Upper \cup Lower \cup Digit \cup {".", "_", "-"}

\* Python's None
None == <<"None">>

\* "".join(lines)
RECURSIVE Join(_)
Join(lines) ==
    IF lines = <<>> THEN <<>> ELSE Head(lines) \o Join(Tail(lines))

\* str.lstrip()
RECURSIVE LStrip(_)
LStrip(s) ==
    IF s # <<>> /\ Head(s) \in Whitespace THEN LStrip(Tail(s)) ELSE s

\* the right half of str.strip()
RECURSIVE RStrip(_)
RStrip(s) ==
    IF s # <<>> /\ s[Len(s)] \in Whitespace
    THEN RStrip(SubSeq(s, 1, Len(s) - 1))
    ELSE s

\* str.strip()
Strip(s) == RStrip(LStrip(s))

\* str.split() with no argument: the maximal runs of non-whitespace
RECURSIVE SplitFrom(_, _, _)
SplitFrom(s, cur, acc) ==
    IF s = <<>>
    THEN IF cur = <<>> THEN acc ELSE Append(acc, cur)
    ELSE IF Head(s) \in Whitespace
         THEN SplitFrom(Tail(s), <<>>, IF cur = <<>> THEN acc ELSE Append(acc, cur))
         ELSE SplitFrom(Tail(s), Append(cur, Head(s)), acc)

Split(s) == SplitFrom(s, <<>>, <<>>)

\* str.startswith("_S")
StartsWithS(s) == Len(s) >= 2 /\ s[1] = "_" /\ s[2] = "S"

\* game_code.replace("-", "")
RemoveHyphens(s) == SelectSeq(s, LAMBDA c : c # "-")

\* re.sub(r"[^A-Za-z0-9._-]", "", game_code)
KeepSafe(s) == SelectSeq(s, LAMBDA c : c \in SafeChars)

DotIni == <<".", "i", "n", "i">>

\* a plausible slip: the hyphens are not removed (the class keeps "-")
sanitize_keeps_hyphens(s_line) ==
    LET parts == Split(Strip(s_line)) IN
    IF Len(parts) < 2 THEN None
    ELSE LET game_code_safe == KeepSafe(parts[2]) IN
         IF game_code_safe = <<>> THEN None ELSE game_code_safe \o DotIni

sanitize_s_code_to_filename(s_line) ==
    LET parts == Split(Strip(s_line)) IN
    IF Len(parts) < 2 THEN None
    ELSE LET game_code      == RemoveHyphens(parts[2])
             game_code_safe == KeepSafe(game_code)
         IN  IF game_code_safe = <<>> THEN None ELSE game_code_safe \o DotIni

\* f"{unknown_index:04}": decimal digits, zero-padded on the left to width 4
RECURSIVE Decimal(_)
Decimal(n) ==
    IF n < 10 THEN <<DigitChars[n + 1]>>
    ELSE Append(Decimal(n \div 10), DigitChars[(n % 10) + 1])

RECURSIVE ZeroPad(_, _)
ZeroPad(s, width) ==
    IF Len(s) >= width THEN s ELSE ZeroPad(<<"0">> \o s, width)

UnknownPrefix == <<"U", "N", "K", "N", "O", "W", "N", "_">>

\* f"UNKNOWN_{unknown_index:04}.ini"
UnknownFilename(unknown_index) ==
    UnknownPrefix \o ZeroPad(Decimal(unknown_index), 4) \o DotIni

(***************************************************************************)
(* Inputs.  `input` is what `for line in f` yields: every line keeps its   *)
(* terminator, and only the last line of a file can lack one.              *)
(***************************************************************************)
LnA        == <<"_", "S", " ", "A", "\n">>
LnAlt      == <<" ", "_", "S", " ", "A", "-", "\n">>
LnB        == <<"_", "S", " ", "B", " ", "x", "\n">>
LnBare     == <<"_", "S", "\n">>
LnBang     == <<"_", "S", " ", "!", "\n">>
LnBody     == <<"x", "\n">>
LnUnknown1 == <<"_", "S", " ">> \o UnknownPrefix \o <<"0", "0", "0", "1", "\n">>
LnOpenEnd  == <<"_", "S", " ", "A">>

Lines == {LnA, LnAlt, LnB, LnBare, LnBang, LnBody, LnUnknown1}
LastLines == Lines \cup {LnOpenEnd}

\* `lines` is a file of at most MaxLines lines
IsInput(lines) ==
    \/ lines = <<>>
    \/ \E k \in 0..(MaxLines - 1) : \E head \in [1..k -> Lines] : \E last \in LastLines :
          lines = Append(head, last)

\* a directory without files, and one holding a file of an earlier run
EmptyDir == [n \in {} |-> <<>>]
StaleDir == [n \in {<<"A">> \o DotIni} |-> <<"o", "l", "d", "\n">>]

\* marker lines handed to sanitize_s_code_to_filename on their own
KeyAlphabet == {" ", "\t", "-", "A", "!", "."}
ExampleLine ==
    <<"_", "S", " ", "U", "L", "-", "U", "S", "-", "1", "0", "0", "8", "0", " ",
      "e", "x", "t", "r", "a", "-", "t", "o", "k", "e", "n", "s">>
IsKeyLine(line) ==
    \/ line = ExampleLine
    \/ \E k \in 0..MaxKeyLen : \E t \in [1..k -> KeyAlphabet] : \E e \in {<<>>, <<"\n">>} :
          line = <<"_", "S">> \o t \o e

(***************************************************************************)
(* State.                                                                  *)
(***************************************************************************)
VARIABLES
    input,                \* the lines of the file at input_path
    input_exists,         \* input_path.exists()
    dir_exists,           \* output_dir exists
    files,                \* the files of output_dir: name -> content
    pc,                   \* where split_cheat_db is
    pos,                  \* lines read so far
    current_block_lines,
    current_filename,
    unknown_index,
    file_to_blocks,       \* OrderedDict: sequence of [name, blocks]
    file_to_seen_blocks,  \* dict: name -> set of block texts
    files_written,
    write_pos,            \* position of the iteration over file_to_blocks.items()
    result,               \* <<the value returned>>, or NoResult
    dir0_exists,          \* history: dir_exists when the current call began
    files0,               \* history: files when the current call began
    result0,              \* history: what the previous call returned
    finalize_log,         \* history: the blocks stored by add_block_to_map, in order
    written,              \* history: names of the files this call has written
    s_line,               \* argument of a lone call of sanitize_s_code_to_filename
    key_out               \* its result, or Pending

vars == <<input, input_exists, dir_exists, files, pc, pos, current_block_lines,
          current_filename, unknown_index, file_to_blocks, file_to_seen_blocks,
          files_written, write_pos, result, dir0_exists, files0, result0,
          finalize_log, written, s_line, key_out>>

\* `result` holds the returned value in a one-element sequence
NoResult == <<>>
Pending  == <<"Pending">>

passVars == <<pos, current_block_lines, current_filename, unknown_index,
              file_to_blocks, file_to_seen_blocks, files_written, write_pos,
              finalize_log, written>>
envVars  == <<input, input_exists, dir0_exists, files0, result0>>
keyVars  == <<s_line, key_out>>

(***************************************************************************)
(* add_block_to_map and its parts.                                         *)
(***************************************************************************)
\* `not filename`: None and the empty string are both false
Falsy(filename) == filename = None \/ filename = <<>>

\* lines 52-54: the name the block is stored under
FinalFilename(filename, index) ==
    IF Falsy(filename) THEN UnknownFilename(index) ELSE filename

\* slip: every stored block takes a number
NextUnknownIndexAlways(filename, index) == index + 1

\* lines 53-55: the counter after the block has been named
NextUnknownIndex(filename, index) ==
    IF Falsy(filename) THEN index + 1 ELSE index

HasKey(ftb, name) == \E i \in 1..Len(ftb) : ftb[i].name = name

KeyIndex(ftb, name) == CHOOSE i \in 1..Len(ftb) : ftb[i].name = name

\* slip: the list is made anew although the key is there
EnsureBlocksResets(ftb, name) ==
    IF HasKey(ftb, name)
    THEN [ftb EXCEPT ![KeyIndex(ftb, name)].blocks = <<>>]
    ELSE Append(ftb, [name |-> name, blocks |-> <<>>])

\* lines 57-58: file_to_blocks[filename] = [] when the key is new
EnsureBlocks(ftb, name) ==
    IF HasKey(ftb, name) THEN ftb ELSE Append(ftb, [name |-> name, blocks |-> <<>>])

\* lines 57-59: file_to_seen_blocks[filename] = set() when the key is new
EnsureSeen(ftb, ftsb, name) ==
    IF HasKey(ftb, name) THEN ftsb
    ELSE [n \in (DOMAIN ftsb) \cup {name} |-> IF n = name THEN {} ELSE ftsb[n]]

\* slip: the membership test is left out
AppendBlockAlways(blocks, seen, block_text) == Append(blocks, block_text)

\* slip: the block is put in front
AppendBlockInFront(blocks, seen, block_text) ==
    IF block_text \notin seen THEN <<block_text>> \o blocks ELSE blocks

\* lines 60-61: the list of a key after the block has been offered to it
AppendBlock(blocks, seen, block_text) ==
    IF block_text \notin seen THEN Append(blocks, block_text) ELSE blocks

\* slip: the text is not recorded as seen
SeenForgotten(seen, block_text) == seen

\* line 62
SeenAfter(seen, block_text) == seen \cup {block_text}

\* slip: the buffer is not emptied
BufferKept(cbl) == cbl

\* line 63
BufferAfterStore(cbl) == <<>>

\* lines 52-64: add_block_to_map past its early return
store_block(cbl, cf, ui, ftb, ftsb) ==
    LET filename   == FinalFilename(cf, ui)
        block_text == Join(cbl)
        ftb1       == EnsureBlocks(ftb, filename)
        ftsb1      == EnsureSeen(ftb, ftsb, filename)
        i          == KeyIndex(ftb1, filename)
    IN  [current_block_lines |-> BufferAfterStore(cbl),
         current_filename    |-> None,
         unknown_index       |-> NextUnknownIndex(cf, ui),
         file_to_blocks      |->
             [ftb1 EXCEPT ![i].blocks =
                 AppendBlock(ftb1[i].blocks, ftsb1[filename], block_text)],
         file_to_seen_blocks |->
             [ftsb1 EXCEPT ![filename] = SeenAfter(ftsb1[filename], block_text)]]

\* slip: the early return of lines 50-51 is left out
add_block_unguarded(cbl, cf, ui, ftb, ftsb) == store_block(cbl, cf, ui, ftb, ftsb)

\* lines 48-64, on the enclosing function's variables
add_block_to_map(cbl, cf, ui, ftb, ftsb) ==
    IF cbl = <<>>
    THEN [current_block_lines |-> cbl, current_filename |-> cf, unknown_index |-> ui,
          file_to_blocks |-> ftb, file_to_seen_blocks |-> ftsb]
    ELSE store_block(cbl, cf, ui, ftb, ftsb)

\* slip: current_filename is reassigned before the open block is stored
KeyOfNewMarker(cf, new_cf) == new_cf

\* lines 73-76: add_block_to_map runs before current_filename is reassigned,
\* so it reads the name computed when the open block began
KeyAtStore(cf, new_cf) == cf

\* line 71 applied to line 69
IsMarker(line) == StartsWithS(LStrip(line))

\* the last marker line among the first n lines, 0 when there is none
LastMarker(lines, n) ==
    LET M == {i \in 1..n : IsMarker(lines[i])} IN
    IF M = {} THEN 0 ELSE CHOOSE i \in M : \A j \in M : j <= i

\* history: what a call of add_block_to_map adds to the log
Logged(log, cbl, cf, ui, start) ==
    IF cbl = <<>> THEN log
    ELSE Append(log, [name |-> FinalFilename(cf, ui), text |-> Join(cbl),
                      start |-> start, derived |-> ~Falsy(cf)])

\* slip: the test of line 79 is left out
AppendLineAlways(cbl, cf, line) == Append(cbl, line)

\* lines 79-80
AppendLine(cbl, cf, line) ==
    IF cf # None THEN Append(cbl, line) ELSE cbl

\* slip: the file is opened for appending
WriteBytesAppending(fs, name, data) ==
    [n \in (DOMAIN fs) \cup {name} |->
        IF n = name THEN (IF name \in DOMAIN fs THEN fs[name] ELSE <<>>) \o data
        ELSE fs[n]]

\* lines 88-89: open(target_file, "wb") truncates or creates, then writes
WriteBytes(fs, name, data) ==
    [n \in (DOMAIN fs) \cup {name} |-> IF n = name THEN data ELSE fs[n]]

\* slip: the directory is made before the input is looked at
MkdirBeforeCheck(exists, was) == TRUE

\* lines 34-37: whether output_dir exists once the call is past them
DirAfterEntry(exists, was) == IF exists THEN TRUE ELSE was

\* slip: the number of blocks is counted, not the number of files
CountBlocks(count, entry) == count + Len(entry.blocks)

\* line 90
CountFile(count, entry) == count + 1

(***************************************************************************)
(* Initial states.                                                         *)
(***************************************************************************)
PassInit ==
    /\ pos = 0
    /\ current_block_lines = <<>>
    /\ current_filename = None
    /\ unknown_index = 1
    /\ file_to_blocks = <<>>
    /\ file_to_seen_blocks = EmptyDir
    /\ files_written = 0
    /\ write_pos = 0
    /\ finalize_log = <<>>
    /\ written = {}

Init ==
    /\ input_exists \in BOOLEAN
    /\ IF input_exists THEN IsInput(input) ELSE input = <<>>
    /\ \/ dir_exists = FALSE /\ files = EmptyDir
       \/ dir_exists = TRUE /\ files \in {EmptyDir, StaleDir}
    /\ pc = "call"
    /\ PassInit
    /\ result = NoResult
    /\ dir0_exists = dir_exists
    /\ files0 = files
    /\ result0 = NoResult
    /\ s_line = <<>>
    /\ key_out = Pending

(***************************************************************************)
(* split_cheat_db, step by step.                                           *)
(***************************************************************************)
\* lines 34-35: raise FileNotFoundError
InputNotFound ==
    /\ pc = "call"
    /\ ~input_exists
    /\ pc' = "raised"
    /\ dir_exists' = DirAfterEntry(input_exists, dir_exists)
    /\ UNCHANGED <<files, result, passVars, envVars, keyVars>>

\* lines 34-46: mkdir and the initial values of the locals
Begin ==
    /\ pc = "call"
    /\ input_exists
    /\ dir_exists' = DirAfterEntry(input_exists, dir_exists)
    /\ pos' = 0
    /\ current_block_lines' = <<>>
    /\ current_filename' = None
    /\ unknown_index' = 1
    /\ file_to_blocks' = <<>>
    /\ file_to_seen_blocks' = EmptyDir
    /\ files_written' = 0
    /\ write_pos' = 0
    /\ finalize_log' = <<>>
    /\ written' = {}
    /\ pc' = "loop"
    /\ UNCHANGED <<files, result, envVars, keyVars>>

\* lines 68-80: one iteration of the loop
ReadLine ==
    /\ pc = "loop"
    /\ pos < Len(input)
    /\ LET line          == input[pos + 1]
           stripped_lead == LStrip(line)
       IN  IF StartsWithS(stripped_lead)
           THEN LET new_cf == sanitize_s_code_to_filename(stripped_lead)
                    r == add_block_to_map(current_block_lines,
                                          KeyAtStore(current_filename, new_cf),
                                          unknown_index, file_to_blocks,
                                          file_to_seen_blocks)
                IN  /\ current_block_lines' = <<line>>
                    /\ current_filename' = new_cf
                    /\ unknown_index' = r.unknown_index
                    /\ file_to_blocks' = r.file_to_blocks
                    /\ file_to_seen_blocks' = r.file_to_seen_blocks
                    /\ finalize_log' = Logged(finalize_log, current_block_lines,
                                              current_filename, unknown_index,
                                              LastMarker(input, pos))
           ELSE /\ current_block_lines' =
                       AppendLine(current_block_lines, current_filename, line)
                /\ UNCHANGED <<current_filename, unknown_index, file_to_blocks,
                               file_to_seen_blocks, finalize_log>>
    /\ pos' = pos + 1
    /\ UNCHANGED <<pc, dir_exists, files, files_written, write_pos, written, result,
                   envVars, keyVars>>

\* line 83: the file is exhausted, the last block is stored
EndOfInput ==
    /\ pc = "loop"
    /\ pos = Len(input)
    /\ LET r == add_block_to_map(current_block_lines, current_filename,
                                 unknown_index, file_to_blocks, file_to_seen_blocks)
       IN  /\ current_block_lines' = r.current_block_lines
           /\ current_filename' = r.current_filename
           /\ unknown_index' = r.unknown_index
           /\ file_to_blocks' = r.file_to_blocks
           /\ file_to_seen_blocks' = r.file_to_seen_blocks
    /\ finalize_log' = Logged(finalize_log, current_block_lines, current_filename,
                              unknown_index, LastMarker(input, pos))
    /\ pc' = "write"
    /\ UNCHANGED <<pos, dir_exists, files, files_written, write_pos, written, result,
                   envVars, keyVars>>

\* lines 86-90: one iteration of the loop that writes the files
WriteFile ==
    /\ pc = "write"
    /\ write_pos < Len(file_to_blocks)
    /\ LET entry == file_to_blocks[write_pos + 1] IN
           /\ files' = WriteBytes(files, entry.name, Join(entry.blocks))
           /\ files_written' = CountFile(files_written, entry)
           /\ written' = written \cup {entry.name}
    /\ write_pos' = write_pos + 1
    /\ UNCHANGED <<pc, dir_exists, pos, current_block_lines, current_filename,
                   unknown_index, file_to_blocks, file_to_seen_blocks, finalize_log,
                   result, envVars, keyVars>>

\* line 92
Return ==
    /\ pc = "write"
    /\ write_pos = Len(file_to_blocks)
    /\ result' = <<files_written>>
    /\ pc' = "done"
    /\ UNCHANGED <<dir_exists, files, passVars, envVars, keyVars>>

\* lines 97-99: the program is run again on the same cheat.db and output directory;
\* the history variables take the state the new call starts from
Rerun ==
    /\ pc \in {"done", "raised"}
    /\ dir0_exists' = dir_exists
    /\ files0' = files
    /\ result0' = result
    /\ result' = NoResult
    /\ pc' = "call"
    /\ UNCHANGED <<input, input_exists, dir_exists, files, passVars, keyVars>>

Next ==
    \/ InputNotFound
    \/ Begin
    \/ ReadLine
    \/ EndOfInput
    \/ WriteFile
    \/ Return
    \/ Rerun

Spec == Init /\ [][Next]_vars

\* a step of the call itself
CallStep == InputNotFound \/ Begin \/ ReadLine \/ EndOfInput \/ WriteFile \/ Return


(***************************************************************************)
(* sanitize_s_code_to_filename on its own.                                 *)
(***************************************************************************)
KeyInit ==
    /\ input_exists = FALSE
    /\ input = <<>>
    /\ dir_exists = FALSE
    /\ files = EmptyDir
    /\ pc = "idle"
    /\ PassInit
    /\ result = NoResult
    /\ dir0_exists = FALSE
    /\ files0 = EmptyDir
    /\ result0 = NoResult
    /\ IsKeyLine(s_line)
    /\ key_out = Pending

\* line 76: the call
DeriveKey ==
    /\ key_out = Pending
    /\ key_out' = sanitize_s_code_to_filename(s_line)
    /\ UNCHANGED <<s_line, dir_exists, files, pc, result, passVars, envVars>>

KeyNext == DeriveKey

KeySpec == KeyInit /\ [][KeyNext]_vars

(***************************************************************************)
(* Vocabulary of the properties, stated on the input text itself.          *)
(***************************************************************************)
\* positions of the marker lines
Markers(lines) == {i \in 1..Len(lines) : IsMarker(lines[i])}

\* the block that starts at marker line i: up to, not including, the next
\* marker line or the end of the input
BlockEnd(lines, i) ==
    CHOOSE j \in i..Len(lines) :
        /\ \A k \in (i + 1)..j : ~IsMarker(lines[k])
        /\ j = Len(lines) \/ IsMarker(lines[j + 1])

BlockAt(lines, i) == SubSeq(lines, i, BlockEnd(lines, i))

\* the whitespace-separated tokens of a text, by where they start
TokenStarts(s) ==
    {i \in 1..Len(s) : s[i] \notin Whitespace /\ (i = 1 \/ s[i - 1] \in Whitespace)}

TokenAt(s, i) ==
    LET j == CHOOSE e \in i..Len(s) :
                 /\ \A k \in i..e : s[k] \notin Whitespace
                 /\ e = Len(s) \/ s[e + 1] \in Whitespace
    IN  SubSeq(s, i, j)

SecondToken(s) ==
    LET T == TokenStarts(s)
        i == CHOOSE a \in T : Cardinality({b \in T : b < a}) = 1
    IN  TokenAt(s, i)

\* a token without its hyphens and without any character outside [A-Za-z0-9._]
Stripped(token) ==
    SelectSeq(token, LAMBDA c : c \in Upper \cup Lower \cup Digit \cup {".", "_"})

\* the marker line yields no key
Unresolved(s) ==
    Cardinality(TokenStarts(s)) < 2 \/ Stripped(SecondToken(s)) = <<>>

\* the key inside a file name <key>.ini
EndsWithIni(name) ==
    Len(name) >= 4 /\ SubSeq(name, Len(name) - 3, Len(name)) = DotIni

KeyOf(name) == SubSeq(name, 1, Len(name) - 4)

\* the groups, as a set of names, and the blocks of a name
Names == {file_to_blocks[i].name : i \in 1..Len(file_to_blocks)}

BlocksOf(name) == file_to_blocks[KeyIndex(file_to_blocks, name)].blocks

LogIndex == 1..Len(finalize_log)

\* the log entries of the blocks whose marker line gave no key, in order
UnresolvedLog == SelectSeq(finalize_log, LAMBDA e : ~e.derived)

\* the log is in input order, and each entry starts at a marker line
LogFollowsInput ==
    /\ \A a, b \in LogIndex : a < b => finalize_log[a].start < finalize_log[b].start
    /\ \A a \in LogIndex :
          /\ finalize_log[a].start \in Markers(input)
          /\ finalize_log[a].start <= pos

\* a text cut into lines the way `for line in f` does
RECURSIVE LinesFrom(_, _, _)
LinesFrom(text, cur, acc) ==
    IF text = <<>>
    THEN IF cur = <<>> THEN acc ELSE Append(acc, cur)
    ELSE IF Head(text) = "\n"
         THEN LinesFrom(Tail(text), <<>>, Append(acc, Append(cur, "\n")))
         ELSE LinesFrom(Tail(text), Append(cur, Head(text)), acc)

LinesOf(text) == LinesFrom(text, <<>>, <<>>)

\* the texts of the blocks of a sequence of lines, in order
RECURSIVE BlockTextsFrom(_, _)
BlockTextsFrom(lines, i) ==
    IF i > Len(lines) THEN <<>>
    ELSE IF IsMarker(lines[i])
         THEN <<Join(BlockAt(lines, i))>> \o BlockTextsFrom(lines, BlockEnd(lines, i) + 1)
         ELSE BlockTextsFrom(lines, i + 1)

BlockTexts(lines) == BlockTextsFrom(lines, 1)

(***************************************************************************)
(* C1: while a block is open, every non-marker line read is appended to    *)
(* the buffer, whether the block's file name was derived or not, so the    *)
(* buffer is the input from the last marker line on and every stored       *)
(* block is its marker line followed by all lines up to the next marker    *)
(* line or the end of the input.                                           *)
(***************************************************************************)
C1_OpenBlockTakesEveryLine ==
    /\ (pc = "loop" /\ LastMarker(input, pos) > 0)
          => current_block_lines = SubSeq(input, LastMarker(input, pos), pos)
    /\ \A a \in LogIndex :
          finalize_log[a].text = Join(BlockAt(input, finalize_log[a].start))

(***************************************************************************)
(* C2: no line before the first marker line gets into a block: the buffer  *)
(* and every stored block are runs of input lines that start at a marker   *)
(* line, and an input without marker line gives an empty mapping.          *)
(***************************************************************************)
RunFrom(text, start, upto) ==
    /\ start \in Markers(input)
    /\ \E j \in start..upto : text = Join(SubSeq(input, start, j))

C2_NothingBeforeFirstMarker ==
    /\ pc \in {"loop", "write", "done"} =>
          /\ current_block_lines # <<>> =>
                RunFrom(Join(current_block_lines), LastMarker(input, pos), pos)
          /\ \A a \in LogIndex :
                RunFrom(finalize_log[a].text, finalize_log[a].start, pos)
          /\ \A n \in Names : \A b \in 1..Len(BlocksOf(n)) :
                \E a \in LogIndex :
                    finalize_log[a].name = n /\ finalize_log[a].text = BlocksOf(n)[b]
          /\ Markers(SubSeq(input, 1, pos)) = {} =>
                current_block_lines = <<>> /\ file_to_blocks = <<>>
    /\ (pc = "done" /\ Markers(input) = {}) => file_to_blocks = <<>>

C2_Witness ==
    /\ pc = "done"
    /\ Len(input) >= 2
    /\ ~IsMarker(input[1])
    /\ Markers(input) # {}
    /\ file_to_blocks # <<>>

(***************************************************************************)
(* C3: no group holds the same block text twice; a group has exactly as    *)
(* many blocks as there are distinct texts stored under its name, however  *)
(* often a text repeats in the input.                                      *)
(***************************************************************************)
C3_NoRepeatedBlock ==
    pc \in {"loop", "write", "done"} =>
        \A n \in Names :
            /\ \A a, b \in 1..Len(BlocksOf(n)) :
                  a # b => BlocksOf(n)[a] # BlocksOf(n)[b]
            /\ Len(BlocksOf(n)) =
                  Cardinality({finalize_log[a].text :
                                  a \in {x \in LogIndex : finalize_log[x].name = n}})

C3_Witness ==
    /\ pc = "done"
    /\ \E a, b, c \in LogIndex :
          /\ a < b /\ b < c
          /\ finalize_log[a].name = finalize_log[b].name
          /\ finalize_log[a].text = finalize_log[b].text
          /\ finalize_log[b].name = finalize_log[c].name
          /\ finalize_log[b].text = finalize_log[c].text

(***************************************************************************)
(* C4: the k-th block to be stored whose marker line gave no key goes to   *)
(* UNKNOWN_<k, 4 digits>; the counter starts at 1, goes up by one for each *)
(* such block and is left alone by blocks with a derived key.              *)
(***************************************************************************)
C4_UnknownNumbering ==
    pc \in {"loop", "write", "done"} =>
        /\ LogFollowsInput
        /\ \A a \in LogIndex :
              finalize_log[a].derived <=> ~Unresolved(input[finalize_log[a].start])
        /\ unknown_index = 1 + Len(UnresolvedLog)
        /\ \A k \in 1..Len(UnresolvedLog) :
              /\ UnresolvedLog[k].name = UnknownFilename(k)
              /\ EndsWithIni(UnresolvedLog[k].name)
              /\ Len(KeyOf(UnresolvedLog[k].name)) = 12
              /\ UnresolvedLog[k].name \in Names
              /\ \E b \in 1..Len(BlocksOf(UnresolvedLog[k].name)) :
                    BlocksOf(UnresolvedLog[k].name)[b] = UnresolvedLog[k].text
        /\ Len(UnresolvedLog) >= 1 =>
              KeyOf(UnresolvedLog[1].name) = UnknownPrefix \o <<"0", "0", "0", "1">>
        /\ Len(UnresolvedLog) >= 2 =>
              KeyOf(UnresolvedLog[2].name) = UnknownPrefix \o <<"0", "0", "0", "2">>

C4_Witness ==
    /\ pc = "done"
    /\ unknown_index = 3
    /\ \E a, b, c \in LogIndex :
          /\ a < b /\ b < c
          /\ ~finalize_log[a].derived
          /\ input[finalize_log[a].start] = LnBare
          /\ finalize_log[b].derived
          /\ ~finalize_log[c].derived
          /\ input[finalize_log[c].start] = LnBang

(***************************************************************************)
(* C5: sanitize_s_code_to_filename gives None when the marker line has     *)
(* fewer than two whitespace-separated tokens or when its second token is  *)
(* empty once every "-" and every character outside [A-Za-z0-9._] is       *)
(* removed; otherwise it gives the name <key>.ini whose key is exactly     *)
(* that stripped second token, whatever tokens follow, so                  *)
(* `_S UL-US-10080 extra-tokens` gives ULUS10080.ini.                      *)
(***************************************************************************)
C5_DerivedKey ==
    key_out # Pending =>
        /\ Unresolved(s_line) => key_out = None
        /\ ~Unresolved(s_line) =>
              /\ key_out # None
              /\ EndsWithIni(key_out)
              /\ KeyOf(key_out) = Stripped(SecondToken(s_line))
        /\ s_line = ExampleLine =>
              key_out = <<"U", "L", "U", "S", "1", "0", "0", "8", "0",
                          ".", "i", "n", "i">>

C5_Witness ==
    /\ s_line = ExampleLine
    /\ key_out # Pending
    /\ KeyOf(key_out) = <<"U", "L", "U", "S", "1", "0", "0", "8", "0">>

(***************************************************************************)
(* C6: the names of the mapping are in the order in which their first      *)
(* block was stored, and within a name the distinct block texts are in the *)
(* order of their first occurrence in the input, none of them missing.     *)
(***************************************************************************)
FirstStored(name) ==
    CHOOSE a \in LogIndex :
        /\ finalize_log[a].name = name
        /\ \A b \in LogIndex : finalize_log[b].name = name => a <= b

FirstStoredText(name, text) ==
    CHOOSE a \in LogIndex :
        /\ finalize_log[a].name = name /\ finalize_log[a].text = text
        /\ \A b \in LogIndex :
              (finalize_log[b].name = name /\ finalize_log[b].text = text) => a <= b

C6_FirstSeenOrder ==
    pc \in {"loop", "write", "done"} =>
        /\ LogFollowsInput
        /\ Names = {finalize_log[a].name : a \in LogIndex}
        /\ \A i, j \in 1..Len(file_to_blocks) :
              i < j => FirstStored(file_to_blocks[i].name)
                          < FirstStored(file_to_blocks[j].name)
        /\ \A n \in Names :
              /\ {BlocksOf(n)[b] : b \in 1..Len(BlocksOf(n))}
                    = {finalize_log[a].text :
                          a \in {x \in LogIndex : finalize_log[x].name = n}}
              /\ \A a, b \in 1..Len(BlocksOf(n)) :
                    a < b => FirstStoredText(n, BlocksOf(n)[a])
                                < FirstStoredText(n, BlocksOf(n)[b])

C6_Witness ==
    /\ pc = "done"
    /\ Len(file_to_blocks) = 2
    /\ Len(file_to_blocks[1].blocks) = 2
    /\ file_to_blocks[1].blocks[1] # file_to_blocks[1].blocks[2]

(***************************************************************************)
(* C7: once the call has returned, the file of every name is the           *)
(* concatenation of that name's distinct blocks, every block of the input  *)
(* is in the file of its name, the files hold nothing else, and cutting a  *)
(* file at its marker lines gives back the blocks of its group.            *)
(***************************************************************************)
C7_FilesAreTheBlocks ==
    pc = "done" =>
        /\ \A n \in Names :
              /\ n \in DOMAIN files
              /\ files[n] = Join(BlocksOf(n))
              /\ BlockTexts(LinesOf(files[n])) = BlocksOf(n)
              /\ \A b \in 1..Len(BlocksOf(n)) :
                    \E i \in Markers(input) : BlocksOf(n)[b] = Join(BlockAt(input, i))
        /\ \A i \in Markers(input) :
              \E n \in Names :
                  /\ ~Unresolved(input[i]) => KeyOf(n) = Stripped(SecondToken(input[i]))
                  /\ \E b \in 1..Len(BlocksOf(n)) :
                        BlocksOf(n)[b] = Join(BlockAt(input, i))

(***************************************************************************)
(* C8: when the input file does not exist the call raises before anything  *)
(* else: the output directory is not made, no file is made or changed,     *)
(* no line is read and nothing is returned.                                *)
(***************************************************************************)
C8_MissingInputRaisesFirst ==
    /\ ~input_exists => pc \in {"call", "raised"}
    /\ pc = "raised" =>
          /\ ~input_exists
          /\ dir_exists = dir0_exists
          /\ files = files0
          /\ result = NoResult
          /\ written = {}
          /\ pos = 0
          /\ file_to_blocks = <<>>

C8_Witness ==
    /\ pc = "raised"
    /\ ~dir_exists
    /\ files = EmptyDir

(***************************************************************************)
(* C9: a second call on the same input and output directory leaves the     *)
(* directory as the first call left it and returns the same count: every   *)
(* file is overwritten with its group's content, never appended to.        *)
(***************************************************************************)
C9_SecondRunChangesNothing ==
    /\ result0 # NoResult =>
          /\ dir_exists = dir0_exists
          /\ files = files0
          /\ pc = "done" => result = result0
    /\ pc = "done" =>
          \A n \in Names : n \in DOMAIN files /\ files[n] = Join(BlocksOf(n))

C9_Witness ==
    /\ pc = "done"
    /\ result0 # NoResult
    /\ result = <<2>>
    /\ (<<"A">> \o DotIni) \in Names
    /\ files0[<<"A">> \o DotIni] # StaleDir[<<"A">> \o DotIni]

(***************************************************************************)
(* C10: the value returned is the number of names in the mapping, which is *)
(* the number of files written; for an input without marker line it is 0,  *)
(* the output directory exists and no file has been written.               *)
(***************************************************************************)
C10_ReturnsNumberOfFiles ==
    pc = "done" =>
        /\ result = <<Cardinality(Names)>>
        /\ result = <<Len(file_to_blocks)>>
        /\ result = <<Cardinality(written)>>
        /\ written = Names
        /\ dir_exists
        /\ Markers(input) = {} =>
              result = <<0>> /\ written = {} /\ files = files0

C10_Witness ==
    /\ pc = "done"
    /\ input # <<>>
    /\ Markers(input) = {}
    /\ ~dir0_exists
    /\ dir_exists
    /\ result = <<0>>

(***************************************************************************)
(* C11: on a marker line the open block is stored first, under the name    *)
(* that its own marker line gave (or the next UNKNOWN name when it gave    *)
(* none, which takes one counter value even when no body line came in      *)
(* between), and only then the new block begins, its buffer holding        *)
(* exactly the new marker line and its name being the new line's.          *)
(***************************************************************************)
\* the file name a marker line stands for, None when it yields no key
NameOfMarker(line) ==
    IF Unresolved(line) THEN None ELSE Stripped(SecondToken(line)) \o DotIni

GroupHolds(ftb, name, text) ==
    \E i \in 1..Len(ftb) :
        /\ ftb[i].name = name
        /\ \E b \in 1..Len(ftb[i].blocks) : ftb[i].blocks[b] = text

C11_MarkerStep ==
    (pc = "loop" /\ pos' = pos + 1 /\ IsMarker(input[pos + 1])) =>
        LET old == LastMarker(input, pos) IN
        /\ current_block_lines' = <<input[pos + 1]>>
        /\ current_filename' = NameOfMarker(input[pos + 1])
        /\ old = 0 => UNCHANGED <<file_to_blocks, unknown_index>>
        /\ old > 0 =>
              LET name == IF Unresolved(input[old])
                          THEN UnknownFilename(unknown_index)
                          ELSE NameOfMarker(input[old])
              IN  /\ unknown_index' =
                        IF Unresolved(input[old]) THEN unknown_index + 1
                                                  ELSE unknown_index
                  /\ GroupHolds(file_to_blocks', name, Join(current_block_lines))
                  /\ \A i \in 1..Len(file_to_blocks) :
                        file_to_blocks[i].name # name
                            => file_to_blocks'[i] = file_to_blocks[i]
                  /\ Len(file_to_blocks') =
                        IF HasKey(file_to_blocks, name) THEN Len(file_to_blocks)
                                                       ELSE Len(file_to_blocks) + 1

C11_StoreThenBegin == [][C11_MarkerStep]_vars

C11_Witness ==
    /\ pc = "loop"
    /\ pos = 2
    /\ IsMarker(input[1]) /\ Unresolved(input[1])
    /\ IsMarker(input[2]) /\ ~Unresolved(input[2])
    /\ unknown_index = 2
    /\ current_block_lines = <<input[2]>>
    /\ GroupHolds(file_to_blocks, UnknownFilename(1), input[1])

(***************************************************************************)
(* C12: every block that is opened is stored exactly once, at the next     *)
(* marker line or at the end of the input: the stored blocks are those of  *)
(* the marker lines read so far, the open one excepted, each once.  Every  *)
(* pass over an existing input ends, without an error, with no open block  *)
(* and an empty buffer: until the call has returned it always has a next   *)
(* step, and each step brings down the number of steps that are left.      *)
(***************************************************************************)
\* an upper bound of the steps the call has left
StepsLeft ==
    CASE pc = "call"  -> 2 * Len(input) + 3
      [] pc = "loop"  -> (Len(input) - pos) + Len(input) + 2
      [] pc = "write" -> (Len(file_to_blocks) - write_pos) + 1
      [] OTHER        -> 0

\* the marker line of the block that is open, if any
OpenMarker ==
    IF pc = "loop" /\ LastMarker(input, pos) > 0 THEN {LastMarker(input, pos)} ELSE {}

C12_StoredOnce ==
    /\ input_exists => pc # "raised"
    /\ pc \in {"loop", "write", "done"} =>
          /\ \A a, b \in LogIndex :
                a < b => finalize_log[a].start < finalize_log[b].start
          /\ {finalize_log[a].start : a \in LogIndex}
                = Markers(SubSeq(input, 1, pos)) \ OpenMarker
          /\ \A a \in LogIndex :
                GroupHolds(file_to_blocks, finalize_log[a].name, finalize_log[a].text)
    /\ pc \in {"write", "done"} =>
          /\ pos = Len(input)
          /\ current_block_lines = <<>>
          /\ current_filename = None

C12_NeverStuck == pc \in {"call", "loop", "write"} => ENABLED CallStep

\* a step taken before the call has returned is a step of the call
C12_StepCountsDown ==
    pc \in {"call", "loop", "write"} => (StepsLeft' < StepsLeft /\ StepsLeft' >= 0)

C12_EveryBlockStoredPassEnds ==
    /\ []C12_StoredOnce
    /\ []C12_NeverStuck
    /\ [][C12_StepCountsDown]_vars

C12_Witness ==
    /\ pc = "done"
    /\ Len(input) = 3
    /\ Markers(input) = {1, 3}
    /\ Len(finalize_log) = 2
    /\ current_block_lines = <<>>

(***************************************************************************)
(* C13: a stored block is never changed, removed or moved by later input:  *)
(* within a call every step keeps the names of the mapping in place and    *)
(* keeps every group as a prefix of what it becomes.                       *)
(***************************************************************************)
IsPrefix(a, b) == Len(a) <= Len(b) /\ SubSeq(b, 1, Len(a)) = a

\* the step that enters a call (pc = "call") makes the call's own, new mapping
C13_GroupsOnlyGrow ==
    pc # "call" =>
        /\ Len(file_to_blocks') >= Len(file_to_blocks)
        /\ \A i \in 1..Len(file_to_blocks) :
              /\ file_to_blocks'[i].name = file_to_blocks[i].name
              /\ IsPrefix(file_to_blocks[i].blocks, file_to_blocks'[i].blocks)

C13_StoredBlocksStay == [][C13_GroupsOnlyGrow]_vars

C13_Witness ==
    /\ pc = "loop"
    /\ pos = 3
    /\ Len(file_to_blocks) = 1
    /\ Len(file_to_blocks[1].blocks) = 2
    /\ current_block_lines # <<>>

(***************************************************************************)
(* C14: add_block_to_map with an empty buffer changes nothing: mapping,    *)
(* order of names, seen sets and counter stay as they are.  So the call    *)
(* made at the first marker line, and the one at the end of an input that  *)
(* never opened a block, make no group and take no UNKNOWN number.         *)
(***************************************************************************)
C14_EmptyCallIsNoOp ==
    LET r == add_block_to_map(<<>>, current_filename, unknown_index,
                              file_to_blocks, file_to_seen_blocks)
    IN  /\ r.file_to_blocks = file_to_blocks
        /\ r.file_to_seen_blocks = file_to_seen_blocks
        /\ r.unknown_index = unknown_index
        /\ r.current_filename = current_filename
        /\ r.current_block_lines = <<>>

C14_NothingBeforeFirstBlock ==
    (pc \in {"loop", "write", "done"} /\ Markers(SubSeq(input, 1, pos)) = {}) =>
        /\ file_to_blocks = <<>>
        /\ file_to_seen_blocks = EmptyDir
        /\ unknown_index = 1

\* a step out of the loop's state calls add_block_to_map when the line read is
\* a marker line or the input is exhausted
C14_EmptyBufferStep ==
    (/\ pc = "loop"
     /\ current_block_lines = <<>>
     /\ (pos = Len(input) \/ IsMarker(input[pos + 1])))
        => UNCHANGED <<file_to_blocks, file_to_seen_blocks, unknown_index>>

C14_EmptyBufferStoresNothing ==
    /\ []C14_EmptyCallIsNoOp
    /\ []C14_NothingBeforeFirstBlock
    /\ [][C14_EmptyBufferStep]_vars

C14_Witness ==
    /\ pc = "loop"
    /\ pos = 1
    /\ IsMarker(input[1]) /\ Unresolved(input[1])
    /\ current_block_lines = <<input[1]>>
    /\ file_to_blocks = <<>>
    /\ unknown_index = 1

(***************************************************************************)
(* C15: the name UNKNOWN_<seq> given to a block whose marker line yields   *)
(* no key differs from the name of every other block stored in the same    *)
(* call, the names derived from a marker line's second token included.     *)
(***************************************************************************)
C15_UnknownNameIsFresh ==
    \A a, b \in LogIndex :
        (a # b /\ ~finalize_log[a].derived)
            => finalize_log[a].name # finalize_log[b].name

(***************************************************************************)
(* C16: the buffer is empty or starts with a marker line and holds no      *)
(* other marker line; it is empty as long as no marker line has been read. *)
(***************************************************************************)
C16_BufferShape ==
    /\ \/ current_block_lines = <<>>
       \/ /\ IsMarker(current_block_lines[1])
          /\ \A i \in 2..Len(current_block_lines) : ~IsMarker(current_block_lines[i])
    /\ (pc = "loop" /\ Markers(SubSeq(input, 1, pos)) = {}) => current_block_lines = <<>>

C16_Witness ==
    /\ pc = "loop"
    /\ pos = 3
    /\ ~IsMarker(input[1])
    /\ Len(current_block_lines) = 2
    /\ current_block_lines = SubSeq(input, 2, 3)

(***************************************************************************)
(* C17: file_to_blocks and file_to_seen_blocks agree: they have the same   *)
(* names, each seen set is the set of the texts of the name's list, and    *)
(* every name has a non-empty list, so no empty file is written.           *)
(***************************************************************************)
C17_ListsAndSetsAgree ==
    /\ DOMAIN file_to_seen_blocks = Names
    /\ Cardinality(Names) = Len(file_to_blocks)
    /\ \A n \in Names :
          /\ Len(BlocksOf(n)) >= 1
          /\ file_to_seen_blocks[n] = {BlocksOf(n)[b] : b \in 1..Len(BlocksOf(n))}
          /\ Cardinality(file_to_seen_blocks[n]) = Len(BlocksOf(n))
    /\ \A n \in written : files[n] # <<>>

C17_Witness ==
    /\ pc = "done"
    /\ Cardinality(DOMAIN file_to_seen_blocks) = 2
    /\ \E n \in Names : Cardinality(file_to_seen_blocks[n]) = 2

====
